---- MODULE Spec2Model ----
(***************************************************************************)
(* Termchat: the network thread (spawn_network_thread), the per-connection *)
(* reader and writer tasks (connect_ws) and the UI callbacks of main.rs,   *)
(* as a state machine.  Strings are sequences of one-character strings so  *)
(* that trim, case folding and format! are computed, not assumed.          *)
(***************************************************************************)
EXTENDS Integers, Sequences, FiniteSets, TLC

\* ------------------------------------------------------------------ bounds
\* Spec: commands the UI callbacks put on the command channel, and items the
\* transport delivers to the reader tasks.
MaxCmds == 3
MaxRecv == 1
\* SpecInbound: Connect commands of the UI, and items the transport delivers.
MaxConnects == 2
MaxFrames == 2
\* SpecIdentity: Connect commands of the UI.
MaxLogins == 2
\* SpecDecode: items the transport delivers.
MaxDecoded == 2
\* SpecBridge: commands of the UI, and items the transport delivers.
MaxBridgeCmds == 2
MaxBridgeRecv == 2
\* SpecColors: the plain usernames get_color may be called with, besides
\* "alice", "Alice" and " Server ".
MaxPlainNames == 8

\* ----------------------------------------------------------------- strings
\* Sample inputs and the string literals of main.rs, as character sequences.
sEmpty == <<>>
sBlank == <<" ">>
sGuest == <<"g","u","e","s","t">>
sGeneral == <<"g","e","n","e","r","a","l">>
sDefault == <<"d","e","f","a","u","l","t">>
sServer == <<"s","e","r","v","e","r">>
sServerPadded == <<" ","S","e","r","v","e","r"," ">>
sServerUpper == <<"S","E","R","V","E","R">>
sBob == <<"b","o","b">>
sAlice == <<"a","l","i","c","e">>
sDev == <<"d","e","v">>
sPw == <<"p","w">>
sHi == <<"h","i">>
sYo == <<"y","o">>
sSpam == <<"s","p","a","m">>
sBad == <<"b","a","d">>
sNope == <<"n","o","p","e">>
sRed == <<"r","e","d">>
sDns == <<"d","n","s">>
sReset == <<"r","e","s","e","t">>
sPipe == <<"p","i","p","e">>
sCloseToken == <<"_","_","T","E","R","M","C","H","A","T","_","_","C","L","O","S","E","_","_">>
sTyMessage == <<"m","e","s","s","a","g","e">>
sTyJoin == <<"j","o","i","n">>
sTyLeave == <<"l","e","a","v","e">>
sTyColourshift == <<"c","o","l","o","u","r","s","h","i","f","t">>
sTyBgshift == <<"b","g","s","h","i","f","t">>
sTyChatclear == <<"c","h","a","t","c","l","e","a","r">>
sTyKicked == <<"k","i","c","k","e","d">>
sTyError == <<"e","r","r","o","r">>
sTyAuthFailed == <<"a","u","t","h","_","f","a","i","l","e","d">>
sAlreadyConnected == <<"A","l","r","e","a","d","y"," ","c","o","n","n","e","c","t","e","d">>
sNotConnected == <<"N","o","t"," ","c","o","n","n","e","c","t","e","d">>
sConnectFailedPfx == <<"C","o","n","n","e","c","t"," ","f","a","i","l","e","d",":"," ">>
sRecvErrPfx == <<"W","S"," ","r","e","c","e","i","v","e"," ","e","r","r","o","r",":"," ">>
sSendErrPfx == <<"W","S"," ","s","e","n","d"," ","e","r","r","o","r",":"," ">>
sUnknown == <<"U","n","k","n","o","w","n">>
sServerPfx == <<"S","e","r","v","e","r",":"," ">>
sSystemPfx == <<"[","S","y","s","t","e","m","]"," ">>
sJoinedSfx == <<" ","j","o","i","n","e","d">>
sLeftSfx == <<" ","l","e","f","t">>
sKickedDefault == <<"Y","o","u"," ","h","a","v","e"," ","b","e","e","n"," ","k","i","c","k","e","d">>
sUnknownError == <<"U","n","k","n","o","w","n"," ","e","r","r","o","r">>
sAuthFailedDefault == <<"A","u","t","h","e","n","t","i","c","a","t","i","o","n"," ","f","a","i","l","e","d">>
sMePfx == <<"[","m","e","]"," ">>
sErrorPfx == <<"[","E","r","r","o","r","]"," ">>
sKickedPfx == <<"[","K","i","c","k","e","d","]"," ">>
sAuthFailedPfx == <<"[","A","u","t","h"," ","F","a","i","l","e","d","]"," ">>
sMsgConnected == <<"[","S","y","s","t","e","m","]"," ","C","o","n","n","e","c","t","e","d",".">>
sMsgDisconnected == <<"[","S","y","s","t","e","m","]"," ","D","i","s","c","o","n","n","e","c","t","e","d",".">>
sThemePfx == <<"[","S","y","s","t","e","m","]"," ","T","h","e","m","e"," ","c","o","l","o","r"," ","c","h","a","n","g","e","d"," ","t","o"," ">>
sMsgBackground == <<"[","S","y","s","t","e","m","]"," ","B","a","c","k","g","r","o","u","n","d"," ","c","h","a","n","g","e","d">>
sMsgChannelClosed == <<"[","S","y","s","t","e","m","]"," ","N","e","t","w","o","r","k"," ","c","h","a","n","n","e","l"," ","c","l","o","s","e","d">>
sThemeInit == <<"#","8","7","C","E","E","B">>
sBackgroundInit == <<"#","0","0","0","0","0","0">>

UpperChars == <<"A","B","C","D","E","F","G","H","I","J","K","L","M",
                "N","O","P","Q","R","S","T","U","V","W","X","Y","Z">>
LowerChars == <<"a","b","c","d","e","f","g","h","i","j","k","l","m",
                "n","o","p","q","r","s","t","u","v","w","x","y","z">>

\* char::to_ascii_lowercase
LowerChar(c) ==
    IF \E i \in DOMAIN UpperChars : UpperChars[i] = c
    THEN LowerChars[CHOOSE i \in DOMAIN UpperChars : UpperChars[i] = c]
    ELSE c

\* str::to_lowercase on the ASCII strings of the model
ToLower(s) == [i \in DOMAIN s |-> LowerChar(s[i])]

\* str::eq_ignore_ascii_case
EqIgnoreAsciiCase(a, b) == ToLower(a) = ToLower(b)

IsSpace(c) == c = " "

RECURSIVE TrimStart(_)
TrimStart(s) ==
    IF s # <<>> /\ IsSpace(Head(s)) THEN TrimStart(Tail(s)) ELSE s

RECURSIVE TrimEnd(_)
TrimEnd(s) ==
    IF s # <<>> /\ IsSpace(s[Len(s)]) THEN TrimEnd(SubSeq(s, 1, Len(s) - 1)) ELSE s

\* str::trim
Trim(s) == TrimEnd(TrimStart(s))

\* -------------------------------------------------------------------- JSON
\* A serde_json::Value of a frame: an object is a function from its keys to
\* values, a value is a string or something that is not a string.
JStr(s) == [t |-> "str", s |-> s]
JNum == [t |-> "num", s |-> <<>>]
NoFields == [k \in {} |-> JNum]

\* Value::get(key).and_then(|v| v.as_str()): the string under key, if any
HasStr(obj, key) == key \in DOMAIN obj /\ obj[key].t = "str"
GetStr(obj, key) == obj[key].s

\* Option::unwrap_or
StrOr(obj, key, dflt) == IF HasStr(obj, key) THEN GetStr(obj, key) ELSE dflt

\* The text of the protocol's frames around their field values.
rJoinPfx == <<"{","\"","t","y","p","e","\"",":","\"","j","o","i","n","\"",",","\"","u","s","e","r","n","a","m","e","\"",":","\"">>
rLeavePfx == <<"{","\"","t","y","p","e","\"",":","\"","l","e","a","v","e","\"",",","\"","u","s","e","r","n","a","m","e","\"",":","\"">>
rMessagePfx == <<"{","\"","t","y","p","e","\"",":","\"","m","e","s","s","a","g","e","\"",",","\"","u","s","e","r","n","a","m","e","\"",":","\"">>
rContentMid == <<"\"",",","\"","c","o","n","t","e","n","t","\"",":","\"">>
rErrorPfx == <<"{","\"","t","y","p","e","\"",":","\"","e","r","r","o","r","\"",",","\"","m","e","s","s","a","g","e","\"",":","\"">>
rAuthFailedPfx == <<"{","\"","t","y","p","e","\"",":","\"","a","u","t","h","_","f","a","i","l","e","d","\"",",","\"","m","e","s","s","a","g","e","\"",":","\"">>
rKickedPfx == <<"{","\"","t","y","p","e","\"",":","\"","k","i","c","k","e","d","\"",",","\"","m","e","s","s","a","g","e","\"",":","\"">>
rEnd == <<"\"","}">>

\* A text frame from the server: its text, whether serde_json::from_str
\* accepts it, and the value it parses to.
TextFrame(raw, ok, obj) == [raw |-> raw, ok |-> ok, obj |-> obj]
NoFrame == TextFrame(<<>>, FALSE, NoFields)

\* The inbound frames of the service protocol, with sample field values.
FrJoin(u) ==
    TextFrame(rJoinPfx \o u \o rEnd, TRUE,
              ("type" :> JStr(sTyJoin)) @@ ("username" :> JStr(u)))
FrLeave(u) ==
    TextFrame(rLeavePfx \o u \o rEnd, TRUE,
              ("type" :> JStr(sTyLeave)) @@ ("username" :> JStr(u)))
FrMessage(u, c) ==
    TextFrame(rMessagePfx \o u \o rContentMid \o c \o rEnd, TRUE,
              ("type" :> JStr(sTyMessage)) @@ ("username" :> JStr(u))
              @@ ("content" :> JStr(c)))
FrError(m) ==
    TextFrame(rErrorPfx \o m \o rEnd, TRUE,
              ("type" :> JStr(sTyError)) @@ ("message" :> JStr(m)))
FrAuthFailed(m) ==
    TextFrame(rAuthFailedPfx \o m \o rEnd, TRUE,
              ("type" :> JStr(sTyAuthFailed)) @@ ("message" :> JStr(m)))
FrKicked(m) ==
    TextFrame(rKickedPfx \o m \o rEnd, TRUE,
              ("type" :> JStr(sTyKicked)) @@ ("message" :> JStr(m)))

FrColourshift(col) ==
    TextFrame(<<"{","\"","t","y","p","e","\"",":","\"">> \o sTyColourshift
              \o <<"\"",",","\"","c","o","l","o","r","\"",":","\"">> \o col \o rEnd, TRUE,
              ("type" :> JStr(sTyColourshift)) @@ ("color" :> JStr(col)))
FrBgshift(col) ==
    TextFrame(<<"{","\"","t","y","p","e","\"",":","\"">> \o sTyBgshift
              \o <<"\"",",","\"","c","o","l","o","r","\"",":","\"">> \o col \o rEnd, TRUE,
              ("type" :> JStr(sTyBgshift)) @@ ("color" :> JStr(col)))
FrChatclear ==
    TextFrame(<<"{","\"","t","y","p","e","\"",":","\"">> \o sTyChatclear \o rEnd, TRUE,
              ("type" :> JStr(sTyChatclear)))

\* Frames outside the protocol: text that is not JSON, an object without
\* "type", an object whose "type" is a number, and a type the reader does
\* not know.
FrGarbage == TextFrame(sHi, FALSE, NoFields)
FrUntyped ==
    TextFrame(<<"{","\"","c","o","n","t","e","n","t","\"",":","\"">> \o sHi \o rEnd, TRUE,
              ("content" :> JStr(sHi)))
FrNumType ==
    TextFrame(<<"{","\"","t","y","p","e","\"",":","5","}">>, TRUE, ("type" :> JNum))
FrPing ==
    TextFrame(<<"{","\"","t","y","p","e","\"",":","\"","p","i","n","g","\"","}">>, TRUE,
              ("type" :> JStr(<<"p","i","n","g">>)))

\* What read.next() yields: Ok(Text), Ok(Close), Ok(other) or Err(e).
WsText(f) == [kind |-> "Text", frame |-> f, err |-> <<>>]
WsClose == [kind |-> "Close", frame |-> NoFrame, err |-> <<>>]
WsOther == [kind |-> "Other", frame |-> NoFrame, err |-> <<>>]
WsErr(e) == [kind |-> "Err", frame |-> NoFrame, err |-> e]

\* The items the transport may deliver to a reader task: Spec takes the
\* three outcomes the reader's loop distinguishes (a text frame, the peer's
\* close, an error), SpecInbound the frames of the protocol as well.
InboundItems == { WsText(FrMessage(sAlice, sHi)), WsClose, WsErr(sReset) }
ProtocolItems ==
    { WsText(FrJoin(sAlice)), WsText(FrMessage(sAlice, sHi)), WsText(FrLeave(sAlice)),
      WsText(FrKicked(sSpam)), WsText(FrError(sBad)), WsText(FrAuthFailed(sNope)),
      WsClose, WsOther, WsErr(sReset) }

\* SpecDecode: every frame of the protocol, the join of the connecting user,
\* a message of a user called System, and the frames outside the protocol.
DecodeItems ==
    { WsText(FrJoin(sAlice)), WsText(FrJoin(sBob)), WsText(FrLeave(sAlice)),
      WsText(FrMessage(sAlice, sHi)),
      WsText(FrMessage(<<"S","y","s","t","e","m">>, sAlice \o sJoinedSfx)),
      WsText(FrError(sBad)), WsText(FrAuthFailed(sNope)), WsText(FrColourshift(sRed)),
      WsText(FrBgshift(sRed)), WsText(FrChatclear), WsText(FrKicked(sSpam)),
      WsText(FrGarbage), WsText(FrUntyped), WsText(FrNumType), WsText(FrPing) }

\* Errors of connect_async and of write.send
ConnectErrors == {sDns}
WriteErrors == {sPipe}

\* ---------------------------------------------------------------- messages
\* NetCommand (main.rs); id numbers the UI's commands in issue order.
CmdConnect(u, c, p, id) ==
    [cmd |-> "Connect", username |-> u, chat |-> c, password |-> p, text |-> <<>>, id |-> id]
CmdSendText(t, id) ==
    [cmd |-> "SendText", username |-> <<>>, chat |-> <<>>, password |-> <<>>, text |-> t, id |-> id]
CmdDisconnect(id) ==
    [cmd |-> "Disconnect", username |-> <<>>, chat |-> <<>>, password |-> <<>>, text |-> <<>>, id |-> id]
CmdRequestGeneralCount(id) ==
    [cmd |-> "RequestGeneralCount", username |-> <<>>, chat |-> <<>>, password |-> <<>>,
     text |-> <<>>, id |-> id]

\* UiEvent (main.rs).  by, conn and idx record the sender: the task, its
\* connection and, for a reader, the position of the inbound item.
UiEvent(ev, txt, n, by, conn, idx) ==
    [ev |-> ev, txt |-> txt, n |-> n, by |-> by, conn |-> conn, idx |-> idx]

\* A String on the outgoing channel of a connection: the serialisation of a
\* JSON object, or the close token.  id is the SendText command it carries.
OutJson(obj, id) == [json |-> TRUE, obj |-> obj, raw |-> <<>>, id |-> id]
OutRaw(s) == [json |-> FALSE, obj |-> NoFields, raw |-> s, id |-> 0]

\* serde_json::json!({"type": "join", ...}).to_string()
JoinMsg(u, c, p) ==
    OutJson(("type" :> JStr(sTyJoin)) @@ ("username" :> JStr(u))
            @@ ("chatname" :> JStr(c)) @@ ("password" :> JStr(p)), 0)

\* serde_json::json!({"type": "message", "content": text}).to_string()
TextMsg(text, id) ==
    OutJson(("type" :> JStr(sTyMessage)) @@ ("content" :> JStr(text)), id)

CloseMsg == OutRaw(sCloseToken)

\* msg == "__TERMCHAT__CLOSE__"
IsCloseToken(msg) == ~msg.json /\ msg.raw = sCloseToken

\* WsMessage written to the transport
WsOutText(msg) == [ws |-> "Text", msg |-> msg]
WsOutClose == [ws |-> "Close", msg |-> OutRaw(<<>>)]

IsJoinFrame(w) ==
    w.ws = "Text" /\ w.msg.json /\ HasStr(w.msg.obj, "type")
    /\ GetStr(w.msg.obj, "type") = sTyJoin
IsMessageFrame(w) ==
    w.ws = "Text" /\ w.msg.json /\ HasStr(w.msg.obj, "type")
    /\ GetStr(w.msg.obj, "type") = sTyMessage
IsCloseFrame(w) == w.ws = "Close"

\* ---------------------------------------------------------------- state
VARIABLES
    net_rx,             \* command channel, UI -> network thread
    ui_rx,              \* event channel, network side -> UI
    cmdLog,             \* every command the UI has put on net_rx, in issue order
    outgoing_tx_opt,    \* network thread: connection whose sender it holds, 0 = None
    connection_active,  \* network thread: its connected flag
    netPc,              \* network thread: "recv", or "connected" inside the Ok arm
    pendingTx,          \* the sender connect_ws returned, not yet stored
    attempts,           \* calls of connect_async so far
    rx,                 \* per connection: the outgoing channel's queue
    wire,               \* per connection: the messages written to the transport
    reader,             \* per connection: "running" or "done"
    writer,             \* per connection: "running" or "done"
    inbound,            \* per connection: the items its reader has taken, in order
    countThreads,       \* general-count threads that have not reported yet
    ui,                 \* the window's properties and its messages model
    uiLog,              \* the events on_poll_network has handled, in order
    user_colors,        \* UserColors: the table, username -> colour
    next_color_index,   \* UserColors: the palette slots handed out so far
    firstSeen,          \* the usernames get_color was called with, the server's
                        \* spellings left out, in the order of their first call
    lastCall,           \* the last call of get_color: its username and its result
    ui_rx_open          \* main still holds the receiver of the event channel

vars == <<net_rx, ui_rx, cmdLog, outgoing_tx_opt, connection_active, netPc, pendingTx,
          attempts, rx, wire, reader, writer, inbound, countThreads, ui, uiLog,
          user_colors, next_color_index, firstSeen, lastCall, ui_rx_open>>

netVars == <<outgoing_tx_opt, connection_active, netPc, pendingTx, attempts>>
connVars == <<rx, wire, reader, writer, inbound>>
colorVars == <<user_colors, next_color_index, firstSeen, lastCall>>

Conns == DOMAIN reader

RECURSIVE SumLen(_)
SumLen(ss) == IF ss = <<>> THEN 0 ELSE Len(Head(ss)) + SumLen(Tail(ss))

\* Items the transport has delivered so far, over all connections
Received == SumLen(inbound)

\* ---------------------------------------------------------- reader's decode
\* One decoded event, before the sender is recorded.
Out(ev, txt) == <<[ev |-> ev, txt |-> txt]>>
NoOut == <<>>

\* connect_ws, reader task: the "message" arm
MessageDisplay(obj) ==
    LET username == StrOr(obj, "username", sUnknown)
        content == StrOr(obj, "content", sEmpty)
    IN  IF EqIgnoreAsciiCase(username, sServer)
        THEN sServerPfx \o content
        ELSE <<"[">> \o username \o <<"]", " ">> \o content

\* connect_ws, reader task: the match on the "type" string of a parsed frame
TypedOut(t, f) ==
    CASE t = sTyMessage -> Out("Received", MessageDisplay(f.obj))
      [] t = sTyJoin ->
            IF HasStr(f.obj, "username")
            THEN Out("Received", sSystemPfx \o GetStr(f.obj, "username") \o sJoinedSfx)
            ELSE NoOut
      [] t = sTyLeave ->
            IF HasStr(f.obj, "username")
            THEN Out("Received", sSystemPfx \o GetStr(f.obj, "username") \o sLeftSfx)
            ELSE NoOut
      [] t = sTyColourshift ->
            IF HasStr(f.obj, "color")
            THEN Out("ThemeChange", GetStr(f.obj, "color"))
            ELSE NoOut
      [] t = sTyBgshift ->
            IF HasStr(f.obj, "color")
            THEN Out("BackgroundChange", GetStr(f.obj, "color"))
            ELSE NoOut
      [] t = sTyChatclear -> Out("ClearChat", sEmpty)
      [] t = sTyKicked -> Out("Kick", StrOr(f.obj, "message", sKickedDefault))
      [] t = sTyError -> Out("Error", StrOr(f.obj, "message", sUnknownError))
      [] t = sTyAuthFailed -> Out("AuthFailed", StrOr(f.obj, "message", sAuthFailedDefault))
      [] OTHER -> Out("Received", f.raw)

\* A reader that passes on only what it can decode.
TextOutDecodedOnly(f) ==
    IF f.ok /\ HasStr(f.obj, "type") /\ GetStr(f.obj, "type") # <<"p","i","n","g">>
    THEN TypedOut(GetStr(f.obj, "type"), f)
    ELSE NoOut

\* connect_ws, reader task: the Ok(WsMessage::Text(txt)) arm
TextOut(f) ==
    IF f.ok
    THEN IF HasStr(f.obj, "type")
         THEN TypedOut(GetStr(f.obj, "type"), f)
         ELSE Out("Received", f.raw)
    ELSE Out("Received", f.raw)

\* connect_ws, reader task: what one item of the stream sends to the UI
ReaderOut(item) ==
    CASE item.kind = "Text" -> TextOut(item.frame)
      [] item.kind = "Close" -> Out("Disconnected", sEmpty)
      [] item.kind = "Err" -> Out("Error", sRecvErrPfx \o item.err)
      [] OTHER -> NoOut

\* connect_ws, reader task: the arms that break out of the loop
ReaderBreaks(item) == item.kind \in {"Close", "Err"}

\* ------------------------------------------------------------ UI callbacks
\* main, on_poll_network: the arm of one event
ApplyEvent(u, e) ==
    CASE e.ev = "Connected" ->
            [u EXCEPT !.connected = TRUE, !.header_text = "TERMCHAT - Connected",
                      !.messages = Append(@, sMsgConnected)]
      [] e.ev = "Disconnected" ->
            [u EXCEPT !.connected = FALSE, !.header_text = "TERMCHAT - Disconnected",
                      !.messages = Append(@, sMsgDisconnected)]
      [] e.ev = "Received" -> [u EXCEPT !.messages = Append(@, e.txt)]
      [] e.ev = "Error" -> [u EXCEPT !.messages = Append(@, sErrorPfx \o e.txt)]
      [] e.ev = "ThemeChange" ->
            [u EXCEPT !.theme_color = e.txt, !.messages = Append(@, sThemePfx \o e.txt)]
      [] e.ev = "BackgroundChange" ->
            [u EXCEPT !.background_color = e.txt, !.messages = Append(@, sMsgBackground)]
      [] e.ev = "ClearChat" -> [u EXCEPT !.messages = <<>>]
      [] e.ev = "Kick" -> [u EXCEPT !.messages = <<sKickedPfx \o e.txt>>]
      [] e.ev = "AuthFailed" ->
            [u EXCEPT !.messages = Append(@, sAuthFailedPfx \o e.txt), !.connected = FALSE]
      [] e.ev = "GeneralCount" -> [u EXCEPT !.general_count = e.n]

\* main, on_poll_network: the try_recv loop over the events waiting
RECURSIVE ApplyAll(_, _)
ApplyAll(u, evs) ==
    IF evs = <<>> THEN u ELSE ApplyAll(ApplyEvent(u, Head(evs)), Tail(evs))

\* The inputs of the connect form (username, chat, password): all blank in
\* Spec, a plain identity in SpecInbound, and in SpecIdentity blank, plain
\* and reserved names in several spellings.
ConnectInputs == { <<sEmpty, sEmpty, sEmpty>> }
InboundConnectInputs == { <<sBob, sDev, sPw>> }
IdentityInputs ==
    { <<sEmpty, sEmpty, sEmpty>>, <<sBlank, sDev, sBlank>>, <<sBob, sDev, sPw>>,
      <<sServer, sDev, sPw>>, <<sServerPadded, sBlank, sPw>>, <<sServerUpper, sDev, sPw>> }

\* The inputs of the message box: two texts and a blank one.
SendInputs == { sHi, sYo, sBlank }

\* UserColors::new: the palette, and the colour get_color gives the server
Palette ==
    <<"red", "green", "yellow", "magenta", "cyan", "bright_red", "bright_yellow",
      "bright_magenta", "bright_cyan">>
PrimaryColor == "primary"

\* The usernames get_color is called with: NamePool in any order that runs
\* at most two names ahead of the pool's, and the spellings of the server's.
sAliceCap == <<"A","l","i","c","e">>
sServerCap == <<"S","e","r","v","e","r">>
NamePool ==
    <<sAlice, sAliceCap, sServerPadded>> \o [i \in 1..MaxPlainNames |-> <<"u", LowerChars[i]>>]
ServerSpellings == { sServer, sServerCap, sServerUpper }

\* A comparison with "server" that minds the case.
IsServerNameExact(username) == username = sServer

\* UserColors::get_color: username.to_lowercase() == "server"
IsServerName(username) == ToLower(username) = sServer

\* A palette that stays on its last colour once every colour is taken.
PaletteSlotNoWrap(k) == Palette[IF k < Len(Palette) THEN k + 1 ELSE Len(Palette)]

\* UserColors::get_color: self.colors[self.next_color_index % self.colors.len()]
PaletteSlot(k) == Palette[(k % Len(Palette)) + 1]

\* A call of get_color and what it returned; NoCall before the first call.
Call(username, color) == [username |-> username, color |-> color]
NoCall == Call(<<>>, "none")

\* main, on_connect: blank fields become the defaults
OrDefault(s, dflt) == IF Trim(s) = <<>> THEN dflt ELSE s

Init ==
    /\ net_rx = <<>>
    /\ ui_rx = <<>>
    /\ cmdLog = <<>>
    /\ outgoing_tx_opt = 0
    /\ connection_active = FALSE
    /\ netPc = "recv"
    /\ pendingTx = 0
    /\ attempts = 0
    /\ rx = <<>>
    /\ wire = <<>>
    /\ reader = <<>>
    /\ writer = <<>>
    /\ inbound = <<>>
    /\ countThreads = 0
    /\ ui = [connected |-> FALSE, header_text |-> "TERMCHAT - Not connected",
             messages |-> <<>>, theme_color |-> sThemeInit,
             background_color |-> sBackgroundInit, general_count |-> -1]
    /\ uiLog = <<>>
    /\ user_colors = <<>>
    /\ next_color_index = 0
    /\ firstSeen = <<>>
    /\ lastCall = NoCall
    /\ ui_rx_open = TRUE

\* UserColors::get_color
GetColor(username) ==
    /\ IF IsServerName(username)
       THEN /\ lastCall' = Call(username, PrimaryColor)
            /\ UNCHANGED <<user_colors, next_color_index>>
       ELSE IF username \in DOMAIN user_colors
       THEN /\ lastCall' = Call(username, user_colors[username])
            /\ UNCHANGED <<user_colors, next_color_index>>
       ELSE /\ lastCall' = Call(username, PaletteSlot(next_color_index))
            /\ user_colors' = (username :> PaletteSlot(next_color_index)) @@ user_colors
            /\ next_color_index' = next_color_index + 1
    /\ firstSeen' =
          IF ToLower(username) = sServer \/ \E i \in DOMAIN firstSeen : firstSeen[i] = username
          THEN firstSeen
          ELSE Append(firstSeen, username)
    /\ UNCHANGED <<net_rx, ui_rx, cmdLog, netVars, connVars, countThreads, ui, uiLog, ui_rx_open>>

\* The usernames the next call of get_color may be given.
ColorInputs ==
    ServerSpellings
    \cup { NamePool[i] : i \in { j \in DOMAIN NamePool : j <= Len(firstSeen) + 2 } }

\* crossbeam Sender::send on the unbounded command channel
Issue(cmd) ==
    /\ net_rx' = Append(net_rx, cmd)
    /\ cmdLog' = Append(cmdLog, cmd)

\* main, on_connect
OnConnect(username, chat, password) ==
    /\ Issue(CmdConnect(OrDefault(username, sGuest), OrDefault(chat, sGeneral),
                        OrDefault(password, sDefault), Len(cmdLog) + 1))
    /\ UNCHANGED <<ui_rx, netVars, connVars, countThreads, colorVars, ui, uiLog, ui_rx_open>>

\* main, on_send_message
OnSendMessage(text) ==
    IF Trim(text) = <<>>
    THEN UNCHANGED vars
    ELSE /\ ui' = [ui EXCEPT !.messages = Append(@, sMePfx \o text)]
         /\ Issue(CmdSendText(text, Len(cmdLog) + 1))
         /\ UNCHANGED <<ui_rx, netVars, connVars, countThreads, colorVars, uiLog, ui_rx_open>>

\* main, on_disconnect
OnDisconnect ==
    /\ Issue(CmdDisconnect(Len(cmdLog) + 1))
    /\ UNCHANGED <<ui_rx, netVars, connVars, countThreads, colorVars, ui, uiLog, ui_rx_open>>

\* main, on_request_general_count
OnRequestGeneralCount ==
    /\ Issue(CmdRequestGeneralCount(Len(cmdLog) + 1))
    /\ UNCHANGED <<ui_rx, netVars, connVars, countThreads, colorVars, ui, uiLog, ui_rx_open>>

\* A poll that handles the first waiting event and throws the rest away.
OnPollNetworkFirstOnly ==
    /\ ui_rx # <<>>
    /\ ui' = ApplyEvent(ui, Head(ui_rx))
    /\ uiLog' = Append(uiLog, Head(ui_rx))
    /\ ui_rx' = <<>>
    /\ UNCHANGED <<net_rx, cmdLog, netVars, connVars, countThreads, colorVars, ui_rx_open>>

\* main, on_poll_network: handles every event waiting on the channel
OnPollNetwork ==
    /\ ui_rx # <<>>
    /\ ui' = ApplyAll(ui, ui_rx)
    /\ uiLog' = uiLog \o ui_rx
    /\ ui_rx' = <<>>
    /\ UNCHANGED <<net_rx, cmdLog, netVars, connVars, countThreads, colorVars, ui_rx_open>>

\* main: main_window.run() returns and main drops the receiver of the event
\* channel, and with it the events still waiting
MainReturns ==
    /\ ui_rx_open
    /\ ui_rx_open' = FALSE
    /\ ui_rx' = <<>>
    /\ UNCHANGED <<net_rx, cmdLog, netVars, connVars, countThreads, colorVars, ui, uiLog>>

\* ---------------------------------------------------------- network thread
\* A channel that hands out its newest message first.
UiSendNewestFirst(q, e) == <<e>> \o q

\* crossbeam Sender::send on the unbounded event channel: queued at once
\* while the receiver lives, Err (which every caller ignores) once it is gone
UiSend(q, e) == IF ui_rx_open THEN Append(q, e) ELSE q

\* A channel that puts a new message ahead of the waiting ones.
TxSendAhead(c, msg) ==
    IF writer[c] = "running" THEN [rx EXCEPT ![c] = <<msg>> \o @] ELSE rx

\* tokio UnboundedSender::send: queued while the receiver lives, Err (which
\* every caller ignores) once the writer task has dropped it
TxSend(c, msg) ==
    IF writer[c] = "running" THEN [rx EXCEPT ![c] = Append(@, msg)] ELSE rx

\* A network thread that never takes itself to be connected.
NeverAlreadyConnected == FALSE

\* spawn_network_thread, Connect arm: `if connection_active`
AlreadyConnected == connection_active

\* What the network thread reports to the UI itself
NetEvent(ev, txt) == UiEvent(ev, txt, 0, "net", 0, 0)

NextCmd == Head(net_rx)
NetReady(kind) == netPc = "recv" /\ net_rx # <<>> /\ NextCmd.cmd = kind

\* spawn_network_thread, RequestGeneralCount arm: a thread is spawned
NetRequestGeneralCount ==
    /\ NetReady("RequestGeneralCount")
    /\ net_rx' = Tail(net_rx)
    /\ countThreads' = countThreads + 1
    /\ UNCHANGED <<ui_rx, cmdLog, netVars, connVars, ui, uiLog, ui_rx_open, colorVars>>

\* A rejection that also lets go of the sender it holds.
NetConnectRejectedDropsSender ==
    /\ NetReady("Connect")
    /\ AlreadyConnected
    /\ net_rx' = Tail(net_rx)
    /\ ui_rx' = UiSend(ui_rx, NetEvent("Error", sAlreadyConnected))
    /\ outgoing_tx_opt' = 0
    /\ UNCHANGED <<cmdLog, connection_active, netPc, pendingTx, attempts, connVars,
                   countThreads, colorVars, ui, uiLog, ui_rx_open>>

\* spawn_network_thread, Connect arm while connection_active
NetConnectRejected ==
    /\ NetReady("Connect")
    /\ AlreadyConnected
    /\ net_rx' = Tail(net_rx)
    /\ ui_rx' = UiSend(ui_rx, NetEvent("Error", sAlreadyConnected))
    /\ UNCHANGED <<cmdLog, netVars, connVars, countThreads, colorVars, ui, uiLog, ui_rx_open>>

\* A failed attempt after which the thread takes itself to be connected.
NetConnectFailedStaysActive(e) ==
    /\ NetReady("Connect")
    /\ ~AlreadyConnected
    /\ net_rx' = Tail(net_rx)
    /\ attempts' = attempts + 1
    /\ connection_active' = TRUE
    /\ ui_rx' = UiSend(ui_rx, NetEvent("Error", sConnectFailedPfx \o e))
    /\ UNCHANGED <<cmdLog, outgoing_tx_opt, netPc, pendingTx,
                   connVars, countThreads, colorVars, ui, uiLog, ui_rx_open>>

\* spawn_network_thread, Connect arm: connect_ws returns Err(e)
NetConnectFailed(e) ==
    /\ NetReady("Connect")
    /\ ~AlreadyConnected
    /\ net_rx' = Tail(net_rx)
    /\ attempts' = attempts + 1
    /\ ui_rx' = UiSend(ui_rx, NetEvent("Error", sConnectFailedPfx \o e))
    /\ UNCHANGED <<cmdLog, outgoing_tx_opt, connection_active, netPc, pendingTx,
                   connVars, countThreads, colorVars, ui, uiLog, ui_rx_open>>

\* A connect_ws that queues no join message.
JoinQueueEmpty(cmd) == <<>>

\* connect_ws: the outgoing channel holds the join message when it returns
JoinQueue(cmd) == <<JoinMsg(cmd.username, cmd.chat, cmd.password)>>

\* spawn_network_thread, Connect arm: connect_ws opens the transport, spawns
\* the reader and the writer, queues the join message and returns Ok(tx)
NetConnectSpawn ==
    /\ NetReady("Connect")
    /\ ~AlreadyConnected
    /\ net_rx' = Tail(net_rx)
    /\ attempts' = attempts + 1
    /\ rx' = Append(rx, JoinQueue(NextCmd))
    /\ wire' = Append(wire, <<>>)
    /\ reader' = Append(reader, "running")
    /\ writer' = Append(writer, "running")
    /\ inbound' = Append(inbound, <<>>)
    /\ pendingTx' = Len(reader) + 1
    /\ netPc' = "connected"
    /\ UNCHANGED <<ui_rx, cmdLog, outgoing_tx_opt, connection_active, countThreads,
                   colorVars, ui, uiLog, ui_rx_open>>

\* spawn_network_thread, Connect arm: the Ok(tx) arm
NetConnectOk ==
    /\ netPc = "connected"
    /\ outgoing_tx_opt' = pendingTx
    /\ connection_active' = TRUE
    /\ pendingTx' = 0
    /\ netPc' = "recv"
    /\ UNCHANGED <<net_rx, ui_rx, cmdLog, attempts, connVars, countThreads, colorVars,
                   ui, uiLog, ui_rx_open>>

\* spawn_network_thread, SendText arm
NetSendText ==
    /\ NetReady("SendText")
    /\ net_rx' = Tail(net_rx)
    /\ IF outgoing_tx_opt # 0
       THEN /\ rx' = TxSend(outgoing_tx_opt, TextMsg(NextCmd.text, NextCmd.id))
            /\ UNCHANGED ui_rx
       ELSE /\ ui_rx' = UiSend(ui_rx, NetEvent("Error", sNotConnected))
            /\ UNCHANGED rx
    /\ UNCHANGED <<cmdLog, netVars, wire, reader, writer, inbound, countThreads,
                   colorVars, ui, uiLog, ui_rx_open>>

\* spawn_network_thread, Disconnect arm
NetDisconnect ==
    /\ NetReady("Disconnect")
    /\ net_rx' = Tail(net_rx)
    /\ rx' = IF outgoing_tx_opt # 0 THEN TxSend(outgoing_tx_opt, CloseMsg) ELSE rx
    /\ outgoing_tx_opt' = 0
    /\ IF connection_active
       THEN /\ connection_active' = FALSE
            /\ ui_rx' = UiSend(ui_rx, UiEvent("Disconnected", sEmpty, 0, "net",
                                              outgoing_tx_opt, 0))
       ELSE UNCHANGED <<connection_active, ui_rx>>
    /\ UNCHANGED <<cmdLog, netPc, pendingTx, attempts, wire, reader, writer, inbound,
                   countThreads, colorVars, ui, uiLog, ui_rx_open>>

\* What fetch_general_count_blocking may return
GeneralCounts == {0, 5}

\* spawn_network_thread, the thread spawned for RequestGeneralCount
CountThread(gc) ==
    /\ countThreads > 0
    /\ countThreads' = countThreads - 1
    /\ ui_rx' = UiSend(ui_rx, UiEvent("GeneralCount", sEmpty, gc, "count", 0, 0))
    /\ UNCHANGED <<net_rx, cmdLog, netVars, connVars, ui, uiLog, ui_rx_open, colorVars>>

\* --------------------------------------------------- reader and writer tasks
\* The events one inbound item makes the reader of connection c send
ReaderEvents(c, item) ==
    [i \in DOMAIN ReaderOut(item) |->
        UiEvent(ReaderOut(item)[i].ev, ReaderOut(item)[i].txt, 0, "reader", c, Len(inbound[c]) + 1)]

\* connect_ws, reader task: one turn of `while let Some(message) = read.next().await`
ReaderStep(c, item) ==
    /\ reader[c] = "running"
    /\ inbound' = [inbound EXCEPT ![c] = Append(@, item)]
    /\ ui_rx' = IF ReaderEvents(c, item) = <<>>
                THEN ui_rx
                ELSE UiSend(ui_rx, ReaderEvents(c, item)[1])
    /\ reader' = [reader EXCEPT ![c] = IF ReaderBreaks(item) THEN "done" ELSE @]
    /\ UNCHANGED <<net_rx, cmdLog, netVars, rx, wire, writer, countThreads, colorVars,
                   ui, uiLog, ui_rx_open>>

\* connect_ws, writer task: the close token is taken off the queue; the
\* result of writing the Close frame is ignored, then the loop breaks
WriterClose(c, ok) ==
    /\ writer[c] = "running"
    /\ rx[c] # <<>>
    /\ IsCloseToken(Head(rx[c]))
    /\ wire' = [wire EXCEPT ![c] = IF ok THEN Append(@, WsOutClose) ELSE @]
    /\ writer' = [writer EXCEPT ![c] = "done"]
    /\ rx' = [rx EXCEPT ![c] = <<>>]
    /\ UNCHANGED <<net_rx, ui_rx, cmdLog, netVars, reader, inbound, countThreads,
                   colorVars, ui, uiLog, ui_rx_open>>

\* connect_ws, writer task: a message is taken off the queue and written
WriterWrite(c) ==
    /\ writer[c] = "running"
    /\ rx[c] # <<>>
    /\ ~IsCloseToken(Head(rx[c]))
    /\ wire' = [wire EXCEPT ![c] = Append(@, WsOutText(Head(rx[c])))]
    /\ rx' = [rx EXCEPT ![c] = Tail(@)]
    /\ UNCHANGED <<net_rx, ui_rx, cmdLog, netVars, reader, writer, inbound, countThreads, colorVars,
                   ui, uiLog, ui_rx_open>>

\* connect_ws, writer task: write.send fails with e, the error is reported
\* and the loop breaks
WriterFail(c, e) ==
    /\ writer[c] = "running"
    /\ rx[c] # <<>>
    /\ ~IsCloseToken(Head(rx[c]))
    /\ ui_rx' = UiSend(ui_rx, UiEvent("Error", sSendErrPfx \o e, 0, "writer", c, 0))
    /\ writer' = [writer EXCEPT ![c] = "done"]
    /\ rx' = [rx EXCEPT ![c] = <<>>]
    /\ UNCHANGED <<net_rx, cmdLog, netVars, wire, reader, inbound, countThreads, colorVars,
                   ui, uiLog, ui_rx_open>>

\* Spec: the UI issues up to MaxCmds commands, the transport delivers up to
\* MaxRecv items.
Next ==
    \/ Len(cmdLog) < MaxCmds /\ \E i \in ConnectInputs : OnConnect(i[1], i[2], i[3])
    \/ Len(cmdLog) < MaxCmds /\ \E t \in SendInputs : OnSendMessage(t)
    \/ Len(cmdLog) < MaxCmds /\ OnDisconnect
    \/ OnPollNetwork
    \/ NetConnectRejected
    \/ \E e \in ConnectErrors : NetConnectFailed(e)
    \/ NetConnectSpawn
    \/ NetConnectOk
    \/ NetSendText
    \/ NetDisconnect
    \/ Received < MaxRecv /\ \E c \in Conns, item \in InboundItems : ReaderStep(c, item)
    \/ \E c \in Conns, ok \in BOOLEAN : WriterClose(c, ok)
    \/ \E c \in Conns : WriterWrite(c)
    \/ \E c \in Conns, e \in WriteErrors : WriterFail(c, e)

Spec == Init /\ [][Next]_vars

\* SpecInbound: the UI only connects (as bob), the transport delivers up to
\* MaxFrames items drawn from the frames of the protocol.
NextInbound ==
    \/ Len(cmdLog) < MaxConnects /\ \E i \in InboundConnectInputs : OnConnect(i[1], i[2], i[3])
    \/ OnPollNetwork
    \/ NetConnectRejected
    \/ \E e \in ConnectErrors : NetConnectFailed(e)
    \/ NetConnectSpawn
    \/ NetConnectOk
    \/ Received < MaxFrames /\ \E c \in Conns, item \in ProtocolItems : ReaderStep(c, item)
    \/ \E c \in Conns : WriterWrite(c)
    \/ \E c \in Conns, e \in WriteErrors : WriterFail(c, e)

SpecInbound == Init /\ [][NextInbound]_vars

\* SpecIdentity: the UI only connects, with the identities of IdentityInputs;
\* the transport delivers nothing.
NextIdentity ==
    \/ Len(cmdLog) < MaxLogins /\ \E i \in IdentityInputs : OnConnect(i[1], i[2], i[3])
    \/ OnPollNetwork
    \/ NetConnectRejected
    \/ \E e \in ConnectErrors : NetConnectFailed(e)
    \/ NetConnectSpawn
    \/ NetConnectOk
    \/ \E c \in Conns : WriterWrite(c)
    \/ \E c \in Conns, e \in WriteErrors : WriterFail(c, e)

SpecIdentity == Init /\ [][NextIdentity]_vars

\* SpecDecode: the UI connects once (as bob), the transport delivers up to
\* MaxDecoded items drawn from DecodeItems.
NextDecode ==
    \/ cmdLog = <<>> /\ \E i \in InboundConnectInputs : OnConnect(i[1], i[2], i[3])
    \/ OnPollNetwork
    \/ \E e \in ConnectErrors : NetConnectFailed(e)
    \/ NetConnectSpawn
    \/ NetConnectOk
    \/ Received < MaxDecoded /\ \E c \in Conns, item \in DecodeItems : ReaderStep(c, item)
    \/ \E c \in Conns : WriterWrite(c)
    \/ \E c \in Conns, e \in WriteErrors : WriterFail(c, e)

SpecDecode == Init /\ [][NextDecode]_vars

\* SpecColors: get_color is called again and again.
NextColors == \E username \in ColorInputs : GetColor(username)

SpecColors == Init /\ [][NextColors]_vars

\* SpecBridge: while the window is open the UI connects, disconnects, asks
\* for the general count and polls; then main returns.  Every producer of
\* events runs: the network thread, the count threads, readers and writers.
NextBridge ==
    \/ ui_rx_open /\ Len(cmdLog) < MaxBridgeCmds
         /\ \E i \in ConnectInputs : OnConnect(i[1], i[2], i[3])
    \/ ui_rx_open /\ Len(cmdLog) < MaxBridgeCmds /\ OnDisconnect
    \/ ui_rx_open /\ Len(cmdLog) < MaxBridgeCmds /\ OnRequestGeneralCount
    \/ ui_rx_open /\ OnPollNetwork
    \/ MainReturns
    \/ NetRequestGeneralCount
    \/ \E gc \in GeneralCounts : CountThread(gc)
    \/ NetConnectRejected
    \/ \E e \in ConnectErrors : NetConnectFailed(e)
    \/ NetConnectSpawn
    \/ NetConnectOk
    \/ NetDisconnect
    \/ Received < MaxBridgeRecv /\ \E c \in Conns, item \in InboundItems : ReaderStep(c, item)
    \/ \E c \in Conns, ok \in BOOLEAN : WriterClose(c, ok)
    \/ \E c \in Conns : WriterWrite(c)
    \/ \E c \in Conns, e \in WriteErrors : WriterFail(c, e)

SpecBridge == Init /\ [][NextBridge]_vars

\* ------------------------------------------------------------------ claims
\* Every event sent to the UI so far, in channel order: handled, then waiting.
AllEvents == uiLog \o ui_rx

\* The step in which the network thread takes a Connect off the command channel.
ConnectTaken ==
    /\ netPc = "recv"
    /\ net_rx # <<>>
    /\ Head(net_rx).cmd = "Connect"
    /\ net_rx' = Tail(net_rx)

\* The network thread holds c as its active connection.
NetHolds(c) == connection_active /\ outgoing_tx_opt = c

\* Connection c is live: held by the network thread, its join frame written,
\* both tasks running.
Live(c) ==
    /\ NetHolds(c)
    /\ wire[c] # <<>>
    /\ reader[c] = "running"
    /\ writer[c] = "running"

AlreadyConnectedEvent == NetEvent("Error", sAlreadyConnected)

\* C1: a Connect the network thread takes while its connection is active is
\* rejected: connect_async is not called, no task is spawned, the sender it
\* holds stays, and Error("Already connected") is sent to the UI.
C1_ConnectWhileActiveRejected ==
    [][ (ConnectTaken /\ connection_active) =>
            /\ attempts' = attempts
            /\ Len(reader') = Len(reader)
            /\ outgoing_tx_opt' = outgoing_tx_opt
            /\ connection_active'
            /\ ui_rx' = Append(ui_rx, AlreadyConnectedEvent) ]_vars

C1_Witness ==
    /\ \E i \in DOMAIN AllEvents : AllEvents[i] = AlreadyConnectedEvent
    /\ outgoing_tx_opt # 0
    /\ attempts = 1

\* C2 as stated: a Connect taken while the connection is live writes no frame
\* and sends no event to the UI.
C2_RejectedConnectEmitsNothing ==
    [][ (ConnectTaken /\ \E c \in Conns : Live(c)) =>
            (wire' = wire /\ ui_rx' = ui_rx) ]_vars

\* C2 amended: a Connect taken while the connection is live leaves the
\* connection as it is (nothing written, nothing queued, both tasks and the
\* held sender unchanged) and sends exactly one event to the UI,
\* Error("Already connected").
C2_RejectedConnectOnlyReports ==
    [][ (ConnectTaken /\ \E c \in Conns : Live(c)) =>
            /\ wire' = wire
            /\ rx' = rx
            /\ reader' = reader
            /\ writer' = writer
            /\ outgoing_tx_opt' = outgoing_tx_opt
            /\ connection_active' = connection_active
            /\ ui_rx' = Append(ui_rx, AlreadyConnectedEvent) ]_vars

C2_Witness ==
    \E c \in Conns :
        /\ Live(c)
        /\ \E i, j \in DOMAIN AllEvents :
              /\ i < j
              /\ AllEvents[i].by = "reader" /\ AllEvents[i].conn = c
              /\ AllEvents[j] = AlreadyConnectedEvent

\* The messages of connection c that are on their way out: written, then queued.
Outbound(c) == wire[c] \o [i \in DOMAIN rx[c] |-> WsOutText(rx[c][i])]

\* The name the service sees for a username: trimmed, in lower case.
Normalized(username) == ToLower(Trim(username))

IsReservedJoin(w) ==
    IsJoinFrame(w) /\ Normalized(GetStr(w.msg.obj, "username")) = sServer

\* C3: a Connect whose trimmed, case-folded username is "server" gets no
\* transport attempt: no connection carries a join message for such a name,
\* queued or written, and connect_async is called at most once per Connect
\* with another name.
C3_ReservedNameNeverAttempted ==
    /\ \A c \in Conns : \A i \in DOMAIN Outbound(c) : ~IsReservedJoin(Outbound(c)[i])
    /\ attempts <= Cardinality({ i \in DOMAIN cmdLog :
                        /\ cmdLog[i].cmd = "Connect"
                        /\ Normalized(cmdLog[i].username) # sServer })

JoinPositions(ws) == { i \in DOMAIN ws : IsJoinFrame(ws[i]) }

\* C4: on every connection the first frame written is the join frame and no
\* second one is ever queued or written: whatever has been written starts
\* with the join, and while nothing has been written the join is the next
\* message the writer takes.
C4_JoinOnceAndFirst ==
    \A c \in Conns :
        /\ wire[c] # <<>> => JoinPositions(Outbound(c)) = {1}
        /\ (wire[c] = <<>> /\ writer[c] = "running") => JoinPositions(Outbound(c)) = {1}
        /\ JoinPositions(Outbound(c)) \subseteq {1}

C4_Witness ==
    \E c \in Conns :
        /\ Len(wire[c]) >= 3
        /\ IsJoinFrame(wire[c][1])
        /\ IsMessageFrame(wire[c][2])
        /\ IsCloseFrame(wire[c][3])

\* The events of AllEvents that the reader of connection c sent, in order.
RECURSIVE ReaderEventsOf(_, _)
ReaderEventsOf(c, evs) ==
    IF evs = <<>> THEN <<>>
    ELSE IF Head(evs).by = "reader" /\ Head(evs).conn = c
         THEN <<Head(evs)>> \o ReaderEventsOf(c, Tail(evs))
         ELSE ReaderEventsOf(c, Tail(evs))

\* The events the items its reader took call for, in the order received.
RECURSIVE Decoded(_, _, _)
Decoded(c, items, k) ==
    IF items = <<>> THEN <<>>
    ELSE [i \in DOMAIN ReaderOut(Head(items)) |->
            UiEvent(ReaderOut(Head(items))[i].ev, ReaderOut(Head(items))[i].txt,
                    0, "reader", c, k)]
         \o Decoded(c, Tail(items), k + 1)

\* C5: the events the UI is given for the inbound frames of one connection
\* are, in order, the events of the frames in the order the transport
\* delivered them: a join, a message and a leave frame give
\* Received("[System] alice joined"), Received("[alice] hi"),
\* Received("[System] alice left") in that order.
C5_InboundOrderKept ==
    \A c \in Conns : ReaderEventsOf(c, AllEvents) = Decoded(c, inbound[c], 1)

C5_Witness ==
    \E c \in Conns :
        /\ Len(inbound[c]) = 2
        /\ inbound[c][1] = WsText(FrJoin(sAlice))
        /\ inbound[c][2] = WsText(FrMessage(sAlice, sHi))
        /\ Len(ReaderEventsOf(c, AllEvents)) = 2
        /\ ReaderEventsOf(c, AllEvents)[1].txt = sSystemPfx \o sAlice \o sJoinedSfx
        /\ ReaderEventsOf(c, AllEvents)[2].txt = <<"[">> \o sAlice \o <<"]", " ">> \o sHi

\* The message frames written on connection c, in order.
MessageFrames(c) == SelectSeq(wire[c], IsMessageFrame)

\* C6: the message frames written on one connection carry, one frame per
\* command and in issue order, the texts of SendText commands of the UI.
C6_SendOrderKept ==
    \A c \in Conns :
        \A i \in DOMAIN MessageFrames(c) :
            LET f == MessageFrames(c)[i].msg IN
            /\ f.id \in DOMAIN cmdLog
            /\ cmdLog[f.id].cmd = "SendText"
            /\ f = TextMsg(cmdLog[f.id].text, f.id)
            /\ \A j \in DOMAIN MessageFrames(c) :
                   i < j => f.id < MessageFrames(c)[j].msg.id
            /\ (i + 1) \in DOMAIN MessageFrames(c) =>
                   \A k \in DOMAIN cmdLog :
                       (f.id < k /\ k < MessageFrames(c)[i + 1].msg.id) =>
                           cmdLog[k].cmd # "SendText"

C6_Witness ==
    \E c \in Conns :
        /\ Len(MessageFrames(c)) = 2
        /\ GetStr(MessageFrames(c)[1].msg.obj, "content") = sHi
        /\ GetStr(MessageFrames(c)[2].msg.obj, "content") = sYo

\* The reader of connection c takes item in this step.
Takes(c, item) == inbound' = [inbound EXCEPT ![c] = Append(@, item)]

\* Connection c is closed: the network thread does not hold it and neither
\* of its tasks runs.
Closed(c) == ~NetHolds(c) /\ reader[c] = "done" /\ writer[c] = "done"

IsKickedItem(item) ==
    /\ item.kind = "Text" /\ item.frame.ok /\ HasStr(item.frame.obj, "type")
    /\ GetStr(item.frame.obj, "type") = sTyKicked

IsRefusalItem(item) ==
    /\ item.kind = "Text" /\ item.frame.ok /\ HasStr(item.frame.obj, "type")
    /\ GetStr(item.frame.obj, "type") \in {sTyError, sTyAuthFailed}

\* C7: when the reader of a connection takes a kicked frame, the UI is sent
\* Kick with the frame's message and, right after it, Disconnected with the
\* reason "kicked", and the connection ends closed.
C7_KickedThenDisconnected ==
    [][ \A c \in Conns : \A item \in ProtocolItems :
            (Takes(c, item) /\ IsKickedItem(item)) =>
                /\ Len(ui_rx') = Len(ui_rx) + 2
                /\ SubSeq(ui_rx', 1, Len(ui_rx)) = ui_rx
                /\ ui_rx'[Len(ui_rx) + 1].ev = "Kick"
                /\ ui_rx'[Len(ui_rx) + 1].txt = GetStr(item.frame.obj, "message")
                /\ ui_rx'[Len(ui_rx) + 2].ev = "Disconnected"
                /\ ui_rx'[Len(ui_rx) + 2].txt = sTyKicked
                /\ Closed(c)' ]_vars

\* C8: when the reader of a connection takes an error or auth_failed frame,
\* the UI is sent Error or AuthFailed with the frame's message, then
\* Disconnected, and the connection ends closed.
C8_RefusalThenDisconnected ==
    [][ \A c \in Conns : \A item \in ProtocolItems :
            (Takes(c, item) /\ IsRefusalItem(item)) =>
                /\ Len(ui_rx') = Len(ui_rx) + 2
                /\ SubSeq(ui_rx', 1, Len(ui_rx)) = ui_rx
                /\ ui_rx'[Len(ui_rx) + 1].ev \in {"Error", "AuthFailed"}
                /\ ui_rx'[Len(ui_rx) + 1].txt = GetStr(item.frame.obj, "message")
                /\ ui_rx'[Len(ui_rx) + 2].ev = "Disconnected"
                /\ Closed(c)' ]_vars

\* The step in which a call of connect_async fails: an attempt is made and no
\* connection comes of it.
AttemptFails ==
    ConnectTaken /\ attempts' = attempts + 1 /\ Len(reader') = Len(reader)

IsConnectFailed(e) ==
    /\ e.ev = "Error" /\ e.by = "net"
    /\ Len(e.txt) > Len(sConnectFailedPfx)
    /\ SubSeq(e.txt, 1, Len(sConnectFailedPfx)) = sConnectFailedPfx

\* C9: a failed transport attempt sends the UI exactly one event,
\* Error("Connect failed: <e>"), and leaves the network thread not connected
\* with no sender; connect_async is called once per Connect taken while not
\* connected and never otherwise, so nothing is retried and the next Connect
\* is attempted again.
C9_ConnectFailureReportedOnce ==
    [][ /\ AttemptFails =>
            /\ Len(ui_rx') = Len(ui_rx) + 1
            /\ SubSeq(ui_rx', 1, Len(ui_rx)) = ui_rx
            /\ IsConnectFailed(ui_rx'[Len(ui_rx')])
            /\ ~connection_active'
            /\ outgoing_tx_opt' = 0
        /\ (ConnectTaken /\ ~connection_active) => attempts' = attempts + 1
        /\ attempts' # attempts =>
            (ConnectTaken /\ ~connection_active /\ attempts' = attempts + 1) ]_vars

\* A first Connect failed and was reported once; a second one was accepted.
C9_Witness ==
    /\ attempts = 2
    /\ Len(cmdLog) >= 2 /\ cmdLog[1].cmd = "Connect" /\ cmdLog[2].cmd = "Connect"
    /\ Cardinality({ i \in DOMAIN AllEvents : IsConnectFailed(AllEvents[i]) }) = 1
    /\ Len(reader) = 1
    /\ NetHolds(1)

\* The reader of connection c stops on a read error or the peer's close.
ReadFailure(c) ==
    /\ reader[c] = "running"
    /\ reader'[c] = "done"

\* The writer of connection c stops on a write error.
WriteFailure(c) ==
    /\ writer[c] = "running"
    /\ rx[c] # <<>>
    /\ ~IsCloseToken(Head(rx[c]))
    /\ writer'[c] = "done"

\* C10: when a read, a write or the peer's close ends a live connection, the
\* UI is sent Disconnected with the transport's error as its reason and the
\* network thread no longer takes itself to be connected.
C10_TransportErrorDisconnects ==
    [][ \A c \in Conns :
            (Live(c) /\ (ReadFailure(c) \/ WriteFailure(c))) =>
                /\ Len(ui_rx') = Len(ui_rx) + 1
                /\ ui_rx'[Len(ui_rx')].ev = "Disconnected"
                /\ ui_rx'[Len(ui_rx')].txt # sEmpty
                /\ ~NetHolds(c)' ]_vars

\* The newest connection has ended on its transport: its reader took the
\* peer's close or a read error, or its writer met a write error.
LastConnectionEnded ==
    /\ reader # <<>>
    /\ \/ reader[Len(reader)] = "done"
       \/ \E i \in DOMAIN AllEvents :
             /\ AllEvents[i].by = "writer"
             /\ AllEvents[i].conn = Len(reader)

\* C11: once the newest connection has ended on the peer's close or a
\* transport error, the next Connect the network thread takes starts a new
\* transport attempt, with or without a Disconnect in between, and is not
\* answered with Error("Already connected").
C11_ReconnectAfterTransportEnd ==
    [][ (ConnectTaken /\ LastConnectionEnded) =>
            /\ attempts' = attempts + 1
            /\ ui_rx' # Append(ui_rx, AlreadyConnectedEvent) ]_vars

\* The Disconnected events the network thread sent for a Disconnect command.
IsUserDisconnected(e) == e.ev = "Disconnected" /\ e.by = "net"

\* C12: the UI handles the Disconnected event of a Disconnect command only
\* after the writer of that connection has taken the close token and written
\* the Close frame, or has given up writing.
C12_DisconnectedAfterClose ==
    \A i \in DOMAIN uiLog :
        IsUserDisconnected(uiLog[i]) =>
            \/ \E k \in DOMAIN wire[uiLog[i].conn] : IsCloseFrame(wire[uiLog[i].conn][k])
            \/ writer[uiLog[i].conn] = "done"

\* An event of the reader of a connection that the network thread has
\* replaced by a newer one.
IsStale(e) ==
    /\ e.by = "reader"
    /\ \E n \in Conns : NetHolds(n) /\ e.conn < n

\* The events of evs that on_poll_network is to handle: the stale ones left out.
RECURSIVE Fresh(_)
Fresh(evs) ==
    IF evs = <<>> THEN <<>>
    ELSE IF IsStale(Head(evs)) THEN Fresh(Tail(evs))
         ELSE <<Head(evs)>> \o Fresh(Tail(evs))

\* C13: when the UI polls after a Disconnect and a new Connect, the events
\* the reader of the earlier connection sent are discarded: the window and
\* its messages change as if only the other events had been handled.
C13_StaleEventsDiscarded ==
    [][ uiLog' # uiLog => ui' = ApplyAll(ui, Fresh(ui_rx)) ]_vars

\* Connection c is being torn down: the network thread answered a Disconnect
\* for it, its reader met the peer's close or a read error, its writer met a
\* write error, or its reader took a kicked, error or auth_failed frame.
TornDown(c) ==
    \/ \E i \in DOMAIN AllEvents : IsUserDisconnected(AllEvents[i]) /\ AllEvents[i].conn = c
    \/ reader[c] = "done"
    \/ \E i \in DOMAIN AllEvents : AllEvents[i].by = "writer" /\ AllEvents[i].conn = c
    \/ \E k \in DOMAIN inbound[c] : IsKickedItem(inbound[c][k]) \/ IsRefusalItem(inbound[c][k])

\* Nothing is left for the program to do for connection c on its own: the
\* network thread waits for a command, the writer of c is done or waits for
\* a message, and the reader of c, if it runs, waits for the peer.
Quiet(c) ==
    /\ netPc = "recv"
    /\ net_rx = <<>>
    /\ writer[c] = "done" \/ rx[c] = <<>>

\* C14: tearing a connection down ends both of its tasks without the peer's
\* help: once the program has done all it does on its own for a connection
\* that is being torn down, neither its reader nor its writer still runs.
C14_TeardownEndsBothTasks ==
    \A c \in Conns :
        (TornDown(c) /\ Quiet(c)) => (reader[c] = "done" /\ writer[c] = "done")

\* The type strings the reader's match has an arm for.
KnownTypes ==
    { sTyMessage, sTyJoin, sTyLeave, sTyColourshift, sTyBgshift, sTyChatclear,
      sTyKicked, sTyError, sTyAuthFailed }

\* A text frame that is not JSON, has no type string, or has a type the
\* protocol does not name.
IsUnrecognized(item) ==
    /\ item.kind = "Text"
    /\ \/ ~item.frame.ok
       \/ ~HasStr(item.frame.obj, "type")
       \/ GetStr(item.frame.obj, "type") \notin KnownTypes

\* C15: a frame that is not JSON, has no type string or has an unknown type
\* is passed to the UI as Received with the frame's raw text, and the reader
\* goes on reading.
C15_UnrecognizedFrameSurfaced ==
    [][ \A c \in Conns : \A item \in DecodeItems :
            (Takes(c, item) /\ IsUnrecognized(item)) =>
                /\ ui_rx' = Append(ui_rx, UiEvent("Received", item.frame.raw, 0, "reader",
                                                  c, Len(inbound[c]) + 1))
                /\ reader'[c] = "running" ]_vars

\* A frame that is not JSON, then a message frame: both reached the UI.
C15_Witness ==
    \E c \in Conns :
        /\ inbound[c] = <<WsText(FrGarbage), WsText(FrMessage(sAlice, sHi))>>
        /\ Len(ReaderEventsOf(c, uiLog)) = 2
        /\ ReaderEventsOf(c, uiLog)[1].ev = "Received"
        /\ ReaderEventsOf(c, uiLog)[1].txt = sHi
        /\ ReaderEventsOf(c, uiLog)[2].txt = <<"[">> \o sAlice \o <<"]", " ">> \o sHi

\* The server has confirmed the join of connection c: the join frame of c
\* was written and a join frame for the same username came back.
JoinConfirmed(c) ==
    /\ wire[c] # <<>>
    /\ IsJoinFrame(wire[c][1])
    /\ \E k \in DOMAIN inbound[c] :
          inbound[c][k] = WsText(FrJoin(GetStr(wire[c][1].msg.obj, "username")))

\* C16: once the server has confirmed the join of the connecting user, the
\* UI has been sent a Connected event.
C16_ConnectedOnJoinConfirmation ==
    \A c \in Conns :
        JoinConfirmed(c) => \E i \in DOMAIN AllEvents : AllEvents[i].ev = "Connected"

\* The kind of a text frame: its type string if the protocol names it, and
\* the empty string for a frame the reader does not recognize.
Shape(item) ==
    IF IsUnrecognized(item) THEN <<>> ELSE GetStr(item.frame.obj, "type")

\* The inbound item a reader's event was sent for.
ItemOf(e) == inbound[e.conn][e.idx]

\* C20: frames of different kinds (the nine kinds of the protocol and the
\* unrecognized ones) reach the UI as different events: no two events sent
\* for frames of different kinds have the same variant and the same content.
C20_FrameKindsDistinguishable ==
    \A a, b \in DOMAIN AllEvents :
        LET e1 == AllEvents[a]
            e2 == AllEvents[b]
        IN (/\ e1.by = "reader" /\ e2.by = "reader"
            /\ ItemOf(e1).kind = "Text" /\ ItemOf(e2).kind = "Text"
            /\ Shape(ItemOf(e1)) # Shape(ItemOf(e2)))
           => <<e1.ev, e1.txt>> # <<e2.ev, e2.txt>>

\* The colour of the i-th username to be seen, by the palette's cycle.
CycleColor(i) == Palette[((i - 1) % 9) + 1]

\* C17: the palette has nine colours; the table holds exactly the usernames
\* seen so far other than the server's, the i-th of them by first call with
\* the colour at place (i - 1) mod 9 of the palette; and a call with such a
\* username, the first or a later one, returns that colour.
C17_PaletteCycles ==
    /\ Len(Palette) = 9
    /\ DOMAIN user_colors = { firstSeen[i] : i \in DOMAIN firstSeen }
    /\ \A i \in DOMAIN firstSeen : user_colors[firstSeen[i]] = CycleColor(i)
    /\ (lastCall # NoCall /\ ToLower(lastCall.username) # sServer) =>
           \E i \in DOMAIN firstSeen :
               firstSeen[i] = lastCall.username /\ lastCall.color = CycleColor(i)

\* Ten usernames were seen, the tenth got the first one's colour, and the
\* first one was asked for again.
C17_Witness ==
    /\ Len(firstSeen) >= 10
    /\ user_colors[firstSeen[10]] = "red"
    /\ user_colors[firstSeen[9]] = "bright_cyan"
    /\ lastCall = Call(firstSeen[1], "red")

\* C18: a call with "Server", "server" or "SERVER" returns the primary
\* colour; such calls take no palette slot, so next_color_index counts the
\* other usernames seen and the table has as many keys; and no key of the
\* table is "server" in any letter case.
C18_ServerNeverInTable ==
    /\ lastCall.username \in ServerSpellings => lastCall.color = PrimaryColor
    /\ next_color_index = Len(firstSeen)
    /\ Cardinality(DOMAIN user_colors) = Len(firstSeen)
    /\ \A k \in DOMAIN user_colors : ToLower(k) # sServer

\* Two usernames have their colours and the last call was for "SERVER".
C18_Witness ==
    /\ lastCall = Call(sServerUpper, PrimaryColor)
    /\ next_color_index = 2
    /\ DOMAIN user_colors = { sAlice, sServerPadded }

\* C19: the table has one key for each normalized (trimmed, lower-case)
\* username: two usernames with the same normalized name share one slot and
\* one colour.
C19_TableKeyedByNormalizedName ==
    \A a, b \in DOMAIN user_colors :
        Normalized(a) = Normalized(b) => (a = b /\ user_colors[a] = user_colors[b])

\* C21: while main holds the receiver, every event a producer sends (the
\* network thread, a count thread, a reader, a writer) joins the end of the
\* events handled and waiting, and a poll moves the waiting ones to the
\* handled ones as they are: none lost, none twice, none out of order.  A
\* send is never held up by what is waiting.  Once the receiver is gone a
\* send changes nothing and the sender goes on.
C21_BridgeDeliversExactlyOnce ==
    [][ /\ ui_rx_open' =>
            \/ AllEvents' = AllEvents
            \/ /\ uiLog' = uiLog
               /\ Len(ui_rx') = Len(ui_rx) + 1
               /\ SubSeq(ui_rx', 1, Len(ui_rx)) = ui_rx
        /\ uiLog' # uiLog => (uiLog' = uiLog \o ui_rx /\ ui_rx' = <<>>)
        /\ \A c \in Conns : \A item \in InboundItems :
              (ui_rx_open /\ Takes(c, item) /\ ReaderOut(item) # <<>>) =>
                  /\ Len(ui_rx') = Len(ui_rx) + 1
                  /\ ui_rx'[Len(ui_rx')].by = "reader"
                  /\ ui_rx'[Len(ui_rx')].conn = c
                  /\ ui_rx'[Len(ui_rx')].ev = ReaderOut(item)[1].ev
        /\ \A c \in Conns :
              (ui_rx_open /\ WriteFailure(c)) =>
                  /\ Len(ui_rx') = Len(ui_rx) + 1
                  /\ ui_rx'[Len(ui_rx')].by = "writer"
                  /\ ui_rx'[Len(ui_rx')].conn = c
        /\ (ui_rx_open /\ countThreads' < countThreads) =>
              /\ Len(ui_rx') = Len(ui_rx) + 1
              /\ ui_rx'[Len(ui_rx')].ev = "GeneralCount"
        /\ ~ui_rx_open =>
              /\ ui_rx' = ui_rx
              /\ uiLog' = uiLog
              /\ \A c \in Conns : \A item \in InboundItems :
                    (Takes(c, item) /\ ~ReaderBreaks(item)) => reader'[c] = "running" ]_vars

\* The UI handled a reader's event, then the network thread's Disconnected,
\* main returned, and the reader took one more item after its last event
\* that was handled.
C21_Witness ==
    /\ ~ui_rx_open
    /\ Len(uiLog) = 2
    /\ uiLog[1].by = "reader"
    /\ uiLog[2].by = "net" /\ uiLog[2].ev = "Disconnected"
    /\ Len(inbound[1]) = 2
    /\ reader[1] = "running"

\* The step in which the network thread takes a SendText off the command channel.
SendTaken ==
    /\ netPc = "recv"
    /\ net_rx # <<>>
    /\ Head(net_rx).cmd = "SendText"
    /\ net_rx' = Tail(net_rx)

\* The network thread has no live connection: it holds no sender (never
\* connected, or disconnected by the user), or the connection it holds has
\* ended: its reader met the peer's close or a read error, or its writer a
\* write error.
NoLiveConnection ==
    \/ outgoing_tx_opt = 0
    \/ reader[outgoing_tx_opt] = "done"
    \/ writer[outgoing_tx_opt] = "done"

\* C22: a SendText the network thread takes while it has no live connection
\* is not swallowed: the UI is sent an Error event for it at once, or the
\* message goes to a writer that is still there to report the failed send.
C22_SendTextNeverSwallowed ==
    [][ (SendTaken /\ NoLiveConnection) =>
            \/ /\ Len(ui_rx') = Len(ui_rx) + 1
               /\ ui_rx'[Len(ui_rx')].ev = "Error"
            \/ rx' # rx ]_vars

\* The Disconnected events sent for connection c.
DisconnectedOf(c) ==
    { i \in DOMAIN AllEvents : AllEvents[i].ev = "Disconnected" /\ AllEvents[i].conn = c }

\* C23: the UI is sent at most one Disconnected event for each connection.
C23_OneDisconnectedPerConnection ==
    \A c \in Conns : Cardinality(DisconnectedOf(c)) <= 1

\* C24: after a Disconnected event for a connection, no event for a text
\* frame of that connection is sent to the UI.
C24_DisconnectedIsTerminal ==
    \A c \in Conns : \A i \in DisconnectedOf(c) : \A j \in DOMAIN AllEvents :
        (i < j /\ AllEvents[j].by = "reader" /\ AllEvents[j].conn = c) =>
            ItemOf(AllEvents[j]).kind # "Text"
====
